---- MODULE Spec2Model ----
(***************************************************************************)
(* Model of the LTTng CTF index decoder of indiectf                        *)
(* (src/indiectf/lttngindex.py).                                           *)
(*                                                                         *)
(* A file is a sequence of bytes (0..255).  Python integers decoded from   *)
(* the file are unbounded; a 32-bit or 64-bit unsigned value is held here  *)
(* as its big-endian sequence of 16-bit limbs (2 limbs for ">I", 4 limbs   *)
(* for ">Q"), so that 0xC1F1DCC1 and 64-bit fields are represented exactly.*)
(***************************************************************************)
EXTENDS Integers, Sequences, FiniteSets, TLC

\* ------------------------------------------------------------------------
\* Bounds of the model
\* ------------------------------------------------------------------------
MaxRecords == 2
MaxGens == 2
MaxPulls == 3

\* ------------------------------------------------------------------------
\* Integers as limbs, bytes, struct
\* ------------------------------------------------------------------------
Min(a, b) == IF a < b THEN a ELSE b

\* A small natural number as a w-byte unsigned value (w/2 limbs).
U(n, w) == [i \in 1..(w \div 2) |-> IF i = w \div 2 THEN n ELSE 0]

\* 0xC1F1DCC1 with its bytes in the opposite order.
MAGIC_byte_swapped == <<49628, 61889>>

\* 0xC1F1DCC1
MAGIC == <<49649, 56513>>

RECURSIVE Sum(_)
Sum(s) == IF s = <<>> THEN 0 ELSE s[1] + Sum(Tail(s))

\* struct.calcsize of a big-endian format, given as the byte widths of its
\* items: ">IIII" is <<4,4,4,4>>, ">QQ" is <<8,8>>.
calcsize(fmt) == Sum(fmt)

index_file_header_fmt == <<4, 4, 4, 4>>
index_entry_fmt == <<8, 8, 8, 8, 8, 8, 8>>
index_entry_supplementary_fields_fmt == <<8, 8>>

\* Big-endian decoding of an even number of bytes: the first byte is the
\* most significant one.
BigEndian(bytes) ==
    [i \in 1..(Len(bytes) \div 2) |-> bytes[2 * i - 1] * 256 + bytes[2 * i]]

\* Big-endian encoding of a limb sequence.
ToBytes(v) ==
    [i \in 1..(2 * Len(v)) |->
        IF i % 2 = 1 THEN v[(i + 1) \div 2] \div 256 ELSE v[i \div 2] % 256]

StructError(n) ==
    [type |-> "struct.error", msg |-> <<"unpack requires a buffer of bytes", n>>]

\* struct.unpack: the buffer length must be exactly calcsize(fmt).
unpack_ok(fmt, buf) == Len(buf) = calcsize(fmt)

unpack(fmt, buf) ==
    [i \in 1..Len(fmt) |->
        BigEndian(SubSeq(buf, Sum(SubSeq(fmt, 1, i - 1)) + 1,
                              Sum(SubSeq(fmt, 1, i))))]

RECURSIVE Concat(_)
Concat(ss) == IF ss = <<>> THEN <<>> ELSE ss[1] \o Concat(Tail(ss))

\* struct.pack of a sequence of values (each already of its item's width).
pack(values) == Concat([i \in 1..Len(values) |-> ToBytes(values[i])])

\* BufferedReader.read(n) at position p: the bytes, and the position after.
read(f, p, n) == SubSeq(f, p + 1, Min(p + n, Len(f)))
tell_after_read(f, p, n) == Min(p + n, Len(f))

\* len(BufferedReader.peek()) != 0 at position p
peek_nonempty(f, p) == p < Len(f)


\* ------------------------------------------------------------------------
\* Text conversions: hex(), str.format of integers
\* ------------------------------------------------------------------------
HexDigit(d) ==
    <<"0", "1", "2", "3", "4", "5", "6", "7",
      "8", "9", "a", "b", "c", "d", "e", "f">>[d + 1]

\* The four hexadecimal digits of one 16-bit limb, most significant first.
Nibbles(limb) ==
    <<limb \div 4096, (limb \div 256) % 16, (limb \div 16) % 16, limb % 16>>

RECURSIVE StripZeros(_)
StripZeros(ds) ==
    IF Len(ds) > 1 /\ ds[1] = 0 THEN StripZeros(Tail(ds)) ELSE ds

\* Python's hex(): "0x", then lower-case digits without leading zeros.
hex(v) ==
    LET ds == StripZeros(Concat([i \in 1..Len(v) |-> Nibbles(v[i])]))
    IN  <<"0", "x">> \o [i \in 1..Len(ds) |-> HexDigit(ds[i])]

RECURSIVE DecDigits(_)
DecDigits(n) ==
    IF n < 10 THEN <<n>> ELSE DecDigits(n \div 10) \o <<n % 10>>

\* "{}".format(n) of an unsigned 32-bit value below 2^31.
Dec(v) ==
    LET ds == DecDigits(v[1] * 65536 + v[2])
    IN  [i \in 1..Len(ds) |-> HexDigit(ds[i])]

\* ------------------------------------------------------------------------
\* InvalidIndexFile, IndexVersion
\* ------------------------------------------------------------------------
\* Python's None
None == [cls |-> "NoneType"]

NoError == [type |-> "none", msg |-> <<>>]

InvalidIndexFile(msg) == [type |-> "InvalidIndexFile", msg |-> msg]

IndexVersion(major, minor) == [major |-> major, minor |-> minor]

\* IndexVersion.__eq__
VersionEq(a, b) == a.major = b.major /\ a.minor = b.minor

\* The version written minor first.
VersionStr_minor_first(v) == Dec(v.minor) \o <<".">> \o Dec(v.major)

\* IndexVersion.__str__
VersionStr(v) == Dec(v.major) \o <<".">> \o Dec(v.minor)

\* ------------------------------------------------------------------------
\* IndexEntry, _IndexEntry10, _IndexEntry11
\* ------------------------------------------------------------------------
\* The abstract properties IndexEntry declares.
IndexEntryAbstract ==
    {"offset_bytes", "packet_size_bits", "content_size_bits",
     "timestamp_begin_cycles", "timestamp_end_cycles",
     "events_discarded_count", "channel_id", "stream_id",
     "packet_sequence_number"}

\* The properties each concrete class (with its bases) overrides.
Overrides10 ==
    {"offset_bytes", "packet_size_bits", "content_size_bits",
     "timestamp_begin_cycles", "timestamp_end_cycles",
     "events_discarded_count", "channel_id"}

Overrides11 == Overrides10 \cup {"stream_id", "packet_sequence_number"}

\* abc.ABCMeta: the abstract methods a class is left with.  A class with
\* abstract methods cannot be instantiated (TypeError, before __init__).
AbstractMethods(cls) ==
    IndexEntryAbstract \ (IF cls = "_IndexEntry10" THEN Overrides10 ELSE Overrides11)

AbstractTypeError(cls) ==
    [type |-> "TypeError",
     msg |-> <<"Can't instantiate abstract class", cls, AbstractMethods(cls)>>]

\* _IndexEntry10.__init__: the attributes set from the seven unpacked
\* fields, on an object of class cls.
IndexEntry10Init(cls, t) ==
    [cls |-> cls,
     offset_bytes |-> t[1], packet_size |-> t[2], content_size |-> t[3],
     timestamp_begin |-> t[4], timestamp_end |-> t[5],
     discarded_events |-> t[6], stream_id |-> t[7]]

\* _IndexEntry11.__init__: super().__init__, then the two supplementary
\* fields.
IndexEntry11Init(t, s) ==
    IndexEntry10Init("_IndexEntry11", t) @@
    [stream_instance_id |-> s[1], packet_sequence_number |-> s[2]]

\* Accessors
offset_bytes(e) == e.offset_bytes
packet_size_bits(e) == e.packet_size
content_size_bits(e) == e.content_size
timestamp_begin_cycles(e) == e.timestamp_begin
timestamp_end_cycles(e) == e.timestamp_end
events_discarded_count(e) == e.discarded_events
channel_id(e) == e.stream_id
\* The accessor as IndexEntry leaves it when a class does not override it.
stream_id_not_overridden(e) == None

stream_id(e) ==
    IF e.cls = "_IndexEntry11" THEN e.stream_instance_id ELSE None
packet_sequence_number(e) ==
    IF e.cls = "_IndexEntry11" THEN e.packet_sequence_number ELSE None

\* Outcome of one step of a computation on the stream: what it produced
\* (kind), the entry or exception, and the stream position it leaves.
Yield(e, p) == [kind |-> "yield", entry |-> e, exc |-> NoError, pos |-> p]
Raise(x, p) == [kind |-> "raise", entry |-> None, exc |-> x, pos |-> p]
Stop(p) == [kind |-> "stop", entry |-> None, exc |-> NoError, pos |-> p]

\* _IndexEntry10(file) with the stream at position p.
NewIndexEntry10(f, p) ==
    IF AbstractMethods("_IndexEntry10") # {}
    THEN Raise(AbstractTypeError("_IndexEntry10"), p)
    ELSE LET n == calcsize(index_entry_fmt)
             buf == read(f, p, n)
             p1 == tell_after_read(f, p, n)
         IN  IF ~unpack_ok(index_entry_fmt, buf)
             THEN Raise(StructError(n), p1)
             ELSE Yield(IndexEntry10Init("_IndexEntry10",
                                         unpack(index_entry_fmt, buf)), p1)

\* _IndexEntry11(file) with the stream at position p.
NewIndexEntry11(f, p) ==
    IF AbstractMethods("_IndexEntry11") # {}
    THEN Raise(AbstractTypeError("_IndexEntry11"), p)
    ELSE LET n == calcsize(index_entry_fmt)
             buf == read(f, p, n)
             p1 == tell_after_read(f, p, n)
             m == calcsize(index_entry_supplementary_fields_fmt)
             sup == read(f, p1, m)
             p2 == tell_after_read(f, p1, m)
         IN  IF ~unpack_ok(index_entry_fmt, buf)
             THEN Raise(StructError(n), p1)
             ELSE IF ~unpack_ok(index_entry_supplementary_fields_fmt, sup)
             THEN Raise(StructError(m), p2)
             ELSE Yield(IndexEntry11Init(
                            unpack(index_entry_fmt, buf),
                            unpack(index_entry_supplementary_fields_fmt, sup)),
                        p2)

\* ------------------------------------------------------------------------
\* IndexFile
\* ------------------------------------------------------------------------
ExpectedMagicText == <<"0", "x", "C", "1", "F", "1", "D", "C", "C", "1">>

MagicMessage(magic) ==
    <<"Unexepected magic value: expected=">> \o ExpectedMagicText
        \o <<", got=">> \o hex(magic)

\* IndexFile.__init__ on a stream at position p: the exception raised (or
\* NoError), the object built and the stream position left.
IndexFileInit(f, p) ==
    LET n == calcsize(index_file_header_fmt)
        buf == read(f, p, n)
        p1 == tell_after_read(f, p, n)
        h == unpack(index_file_header_fmt, buf)
    IN  IF ~unpack_ok(index_file_header_fmt, buf)
        THEN [exc |-> StructError(n), obj |-> None, pos |-> p1]
        ELSE IF h[1] # MAGIC
        THEN [exc |-> InvalidIndexFile(MagicMessage(h[1])), obj |-> None,
              pos |-> p1]
        ELSE [exc |-> NoError,
              obj |-> [version |-> IndexVersion(h[2], h[3]),
                       position_after_file_header |-> p1],
              pos |-> p1]

UnknownFormat(version) ==
    [type |-> "NotImplementedError",
     msg |-> <<"Unknown index format ">> \o VersionStr(version)]

\* A generator body without the seek.
SeekPos_no_seek(state, start, p) == p

\* A generator body that seeks on every resumption.
SeekPos_every_pull(state, start, p) == start

\* The position the generator body continues from: its first resumption
\* runs the seek, a later one continues from wherever the stream is.
SeekPos(state, start, p) == IF state = "created" THEN start ELSE p

\* The loop with the version dispatched before the stream is peeked.
EntriesStep_dispatch_first(f, version, p) ==
    IF VersionEq(version, IndexVersion(U(1, 4), U(0, 4)))
    THEN (IF peek_nonempty(f, p) THEN NewIndexEntry10(f, p) ELSE Stop(p))
    ELSE IF VersionEq(version, IndexVersion(U(1, 4), U(1, 4)))
    THEN (IF peek_nonempty(f, p) THEN NewIndexEntry11(f, p) ELSE Stop(p))
    ELSE Raise(UnknownFormat(version), p)

\* One iteration of the while loop of IndexFile.entries with the stream
\* at position p.
EntriesStep(f, version, p) ==
    IF ~peek_nonempty(f, p) THEN Stop(p)
    ELSE IF VersionEq(version, IndexVersion(U(1, 4), U(0, 4)))
    THEN NewIndexEntry10(f, p)
    ELSE IF VersionEq(version, IndexVersion(U(1, 4), U(1, 4)))
    THEN NewIndexEntry11(f, p)
    ELSE Raise(UnknownFormat(version), p)

\* ------------------------------------------------------------------------
\* Input files
\* ------------------------------------------------------------------------
\* Magic values tried: the valid one, zero, the valid one with its last
\* bit flipped, and the valid one with its bytes reversed.
Magics == {<<49649, 56513>>, <<0, 0>>, <<49649, 56512>>, <<49628, 61889>>}

\* Major and minor version numbers tried in the header.
VersionNumbers == {0, 1, 2}

\* Families of field values tried in the records.
Seeds == {1, 2}

\* Declared per-record sizes tried in the header.
DeclaredSizes == {0, 56}

\* Numbers of bytes appended after the last whole record.
TrailingSizes == {0, 10, 56, 71}

\* The number of 64-bit fields of a record of the given header version.
FieldCount(major, minor) == IF major = 1 /\ minor = 1 THEN 9 ELSE 7

\* The value of field k of record i: small values for seed 1, values using
\* all four limbs (distinct high and low bytes) for the other seeds.
FieldValue(seed, i, k) ==
    IF seed = 1 THEN <<0, 0, 0, 16 * i + k>>
    ELSE <<65535 - k, 258 * seed + i, 772 * k, 255 + 256 * i>>

RecordValues(seed, i, nf) == [k \in 1..nf |-> FieldValue(seed, i, k)]

FileBytes(magic, major, minor, declared, recs, r) ==
    pack(<<magic, U(major, 4), U(minor, 4), U(declared, 4)>>)
        \o Concat([i \in 1..Len(recs) |-> pack(recs[i])])
        \o [j \in 1..r |-> 170]

\* ------------------------------------------------------------------------
\* State
\* ------------------------------------------------------------------------
VARIABLES
    file,       \* the bytes of the stream
    written,    \* the field values the records of the file were packed from
    pos,        \* the stream position (BufferedReader.tell())
    index,      \* the IndexFile object, None until constructed
    ctor_exc,   \* the exception IndexFile(...) raised, NoError if none
    gens,       \* the generators obtained from index.entries, in order
    last        \* the entry most recently yielded by any generator

vars == <<file, written, pos, index, ctor_exc, gens, last>>

Init ==
    /\ \E magic \in Magics, major \in VersionNumbers, minor \in VersionNumbers,
          declared \in DeclaredSizes, n \in 0..MaxRecords,
          r \in TrailingSizes, seed \in Seeds, cut \in 0..16 :
          LET recs == [i \in 1..n |->
                          RecordValues(seed, i, FieldCount(major, minor))]
              whole == FileBytes(magic, major, minor, declared, recs, r)
          IN  /\ cut < 16 =>
                    /\ n = 0 /\ r = 0 /\ seed = 1 /\ declared = 56
                    /\ major = 1 /\ minor = 0
              /\ file = (IF cut < 16 THEN SubSeq(whole, 1, cut) ELSE whole)
              /\ written = recs
    /\ pos = 0
    /\ index = None
    /\ ctor_exc = NoError
    /\ gens = <<>>
    /\ last = None

\* index = lttngindex.IndexFile(index_file)
Construct ==
    /\ index = None
    /\ ctor_exc = NoError
    /\ LET c == IndexFileInit(file, pos)
       IN  /\ index' = c.obj
           /\ ctor_exc' = c.exc
           /\ pos' = c.pos
    /\ UNCHANGED <<file, written, gens, last>>

NewGenerator ==
    [state |-> "created", pulls |-> 0, after |-> FALSE, out |-> <<>>,
     exc |-> NoError]

\* index.entries: a new generator; its body has not started to run.
Entries ==
    /\ index # None
    /\ Len(gens) < MaxGens
    /\ gens' = Append(gens, NewGenerator)
    /\ UNCHANGED <<file, written, pos, index, ctor_exc, last>>

\* next(g) on a generator that has not finished: the body runs to its next
\* yield, to its end or to an exception.
Pull(g) ==
    /\ index # None
    /\ g \in 1..Len(gens)
    /\ gens[g].state # "finished"
    /\ gens[g].pulls < MaxPulls
    /\ LET r == EntriesStep(file, index.version,
                            SeekPos(gens[g].state,
                                    index.position_after_file_header, pos))
       IN  /\ pos' = r.pos
           /\ gens' = [gens EXCEPT ![g] =
                  [state |-> IF r.kind = "yield" THEN "suspended" ELSE "finished",
                   pulls |-> gens[g].pulls + 1,
                   after |-> FALSE,
                   out |-> IF r.kind = "yield"
                           THEN Append(gens[g].out, r.entry) ELSE gens[g].out,
                   exc |-> r.exc]]
           /\ last' = IF r.kind = "yield" THEN r.entry ELSE last
    /\ UNCHANGED <<file, written, index, ctor_exc>>

\* next(g) on a finished generator: StopIteration, nothing runs.  A finished
\* generator never changes again, so one such pull per generator is
\* followed (after records that it was made).
PullFinished(g) ==
    /\ g \in 1..Len(gens)
    /\ gens[g].state = "finished"
    /\ ~gens[g].after
    /\ gens' = [gens EXCEPT ![g].pulls = @ + 1, ![g].after = TRUE]
    /\ UNCHANGED <<file, written, pos, index, ctor_exc, last>>

\* A single owner: only the generator requested last is pulled.
PullLatest == Pull(Len(gens))

PullLatestFinished == PullFinished(Len(gens))

\* Several call sites: any generator is pulled.
PullAny == \E g \in 1..Len(gens) : Pull(g)

PullAnyFinished == \E g \in 1..Len(gens) : PullFinished(g)

Next ==
    \/ Construct
    \/ Entries
    \/ PullLatest
    \/ PullLatestFinished

Spec == Init /\ [][Next]_vars

NextShared ==
    \/ Construct
    \/ Entries
    \/ PullAny
    \/ PullAnyFinished

SpecShared == Init /\ [][NextShared]_vars

\* ------------------------------------------------------------------------
\* Vocabulary of the properties
\* ------------------------------------------------------------------------
\* The nine accessors of an entry, in wire order; the first nf of them.
FieldsOf(e, nf) ==
    SubSeq(<<offset_bytes(e), packet_size_bits(e), content_size_bits(e),
             timestamp_begin_cycles(e), timestamp_end_cycles(e),
             events_discarded_count(e), channel_id(e), stream_id(e),
             packet_sequence_number(e)>>, 1, nf)

Contains(s, sub) ==
    \E i \in 1..(Len(s) - Len(sub) + 1) : SubSeq(s, i, i + Len(sub) - 1) = sub

\* The decimal text of a number below 10.
DecDigitText(n) == <<HexDigit(n)>>

EndsWith(s, t) ==
    Len(t) <= Len(s) /\ SubSeq(s, Len(s) - Len(t) + 1, Len(s)) = t

IsPrefix(s, t) == Len(s) <= Len(t) /\ s = SubSeq(t, 1, Len(s))

\* The header of the file, read off its bytes.
HeaderSize == 16
HasHeader == Len(file) >= HeaderSize
MagicBytesValid == SubSeq(file, 1, 4) = <<193, 241, 220, 193>>
HeaderIs(major, minor) ==
    /\ HasHeader
    /\ MagicBytesValid
    /\ SubSeq(file, 5, 12) = <<0, 0, 0, major, 0, 0, 0, minor>>
HeaderUnsupported ==
    /\ HasHeader
    /\ MagicBytesValid
    /\ ~HeaderIs(1, 0)
    /\ ~HeaderIs(1, 1)
RegionLen == Len(file) - HeaderSize

\* IndexFile(...) has returned or raised.
Constructed == index # None \/ ctor_exc # NoError

\* ------------------------------------------------------------------------
\* Properties
\* ------------------------------------------------------------------------

\* C1: for a file with a valid {1,0} header followed by a whole number of
\* 56-byte records, an enumeration run to its end has raised nothing and
\* has yielded exactly floor((filesize-16)/56) entries, each with stream_id
\* and packet_sequence_number None.
C1_V10YieldsEveryRecord ==
    \A g \in 1..Len(gens) :
        (HeaderIs(1, 0) /\ RegionLen % 56 = 0 /\ gens[g].state = "finished")
        => /\ gens[g].exc = NoError
           /\ Len(gens[g].out) = RegionLen \div 56
           /\ \A i \in 1..Len(gens[g].out) :
                 /\ stream_id(gens[g].out[i]) = None
                 /\ packet_sequence_number(gens[g].out[i]) = None

\* C2: for a file with a valid {1,1} header followed by a whole number of
\* 72-byte records, an enumeration yields the records in file order, each
\* with stream_id and packet_sequence_number present, and once run to its
\* end it has raised nothing and yielded exactly floor((filesize-16)/72)
\* entries.
C2_V11YieldsEveryRecord ==
    \A g \in 1..Len(gens) :
        (HeaderIs(1, 1) /\ RegionLen % 72 = 0)
        => /\ Len(gens[g].out) <= RegionLen \div 72
           /\ \A i \in 1..Len(gens[g].out) :
                 /\ offset_bytes(gens[g].out[i]) = written[i][1]
                 /\ stream_id(gens[g].out[i]) # None
                 /\ packet_sequence_number(gens[g].out[i]) # None
           /\ gens[g].state = "finished"
              => /\ gens[g].exc = NoError
                 /\ Len(gens[g].out) = RegionLen \div 72

\* A {1,1} file of two records enumerated to its end.
C2_Witness ==
    \E g \in 1..Len(gens) :
        /\ HeaderIs(1, 1)
        /\ RegionLen = 144
        /\ gens[g].state = "finished"
        /\ Len(gens[g].out) = 2

\* C3: with a single owner, every enumeration requested on a file handle
\* yields from the first record on: what an enumeration has yielded is a
\* prefix of what any enumeration run to its end has yielded, and two
\* enumerations run to their ends have yielded the same entries and ended
\* the same way, whether the earlier one was run to exhaustion or abandoned.
C3_Restartable ==
    \A g \in 1..Len(gens), h \in 1..Len(gens) :
        gens[h].state = "finished"
        => /\ IsPrefix(gens[g].out, gens[h].out)
           /\ gens[g].state = "finished"
              => /\ gens[g].out = gens[h].out
                 /\ gens[g].exc = gens[h].exc

\* An enumeration abandoned after one pull, then a second one run to the
\* end of a two-record file.
C3_Witness ==
    /\ Len(gens) = 2
    /\ gens[1].state = "suspended"
    /\ gens[1].pulls = 1
    /\ gens[2].state = "finished"
    /\ Len(gens[2].out) = 2

\* C4: for a supported version with record size S, on a file of N whole
\* records and r trailing bytes, 0 < r < S, the first N pulls yield N
\* entries, the (N+1)-th pull fails with the decoder's format error, and no
\* more than N entries are ever yielded.
C4_TruncatedRecordIsFormatError ==
    \A S \in {56, 72} : \A g \in 1..Len(gens) :
        (/\ (S = 56 /\ HeaderIs(1, 0)) \/ (S = 72 /\ HeaderIs(1, 1))
         /\ RegionLen % S # 0)
        => LET N == RegionLen \div S
           IN  /\ Len(gens[g].out) <= N
               /\ gens[g].pulls <= N
                  => /\ Len(gens[g].out) = gens[g].pulls
                     /\ gens[g].exc = NoError
               /\ gens[g].pulls > N
                  => /\ Len(gens[g].out) = N
                     /\ gens[g].exc.type = "InvalidIndexFile"

\* The version of the header, read off the bytes of the file.
HeaderVersion ==
    IndexVersion(<<file[5] * 256 + file[6], file[7] * 256 + file[8]>>,
                 <<file[9] * 256 + file[10], file[11] * 256 + file[12]>>)

\* What a pulled enumeration of a file of unsupported version looks like:
\* ended by the unknown-format error carrying the version, nothing yielded.
EndedByUnknownFormat(gen) ==
    /\ gen.state = "finished"
    /\ gen.out = <<>>
    /\ gen.exc.type = "NotImplementedError"
    /\ gen.exc.msg = <<"Unknown index format ">>
                        \o DecDigitText(file[8]) \o <<".">>
                        \o DecDigitText(file[12])

\* C5 as stated: for a valid magic and a version other than {1,0} and
\* {1,1}, construction succeeds and exposes the version, and the first pull
\* of an enumeration fails with the unknown-format error carrying the
\* version, nothing being yielded then or by later pulls.
C5_UnsupportedVersionFirstPullFails ==
    HeaderUnsupported
    => /\ Constructed => (index # None /\ index.version = HeaderVersion)
       /\ \A g \in 1..Len(gens) :
             gens[g].pulls >= 1 => EndedByUnknownFormat(gens[g])

\* C5 amended: the same, for files with at least one byte after the header.
C5_UnsupportedVersionFailsWhenBytesRemain ==
    HeaderUnsupported
    => /\ Constructed => (index # None /\ index.version = HeaderVersion)
       /\ \A g \in 1..Len(gens) :
             (gens[g].pulls >= 1 /\ RegionLen > 0)
             => EndedByUnknownFormat(gens[g])

\* A file of unsupported version with bytes after the header, pulled twice.
C5_Witness ==
    /\ HeaderUnsupported
    /\ RegionLen > 0
    /\ \E g \in 1..Len(gens) :
          gens[g].pulls = 2 /\ gens[g].exc.type = "NotImplementedError"

\* The magic of the file in the text hex() gives it, read off its bytes.
ActualMagicText ==
    LET ns == StripZeros(Concat([i \in 1..4 |->
                                    <<file[i] \div 16, file[i] % 16>>]))
    IN  <<"0", "x">> \o [i \in 1..Len(ns) |-> HexDigit(ns[i])]

\* C6: when the header holds a magic other than 0xC1F1DCC1, construction
\* fails with InvalidIndexFile, whose message contains the expected and the
\* actual value in hexadecimal; no IndexFile exists, so no version is
\* exposed, no enumeration can be requested and the stream is never read
\* past the header.
C6_InvalidMagic ==
    (HasHeader /\ ~MagicBytesValid)
    => /\ index = None
       /\ gens = <<>>
       /\ pos <= HeaderSize
       /\ Constructed
          => /\ ctor_exc.type = "InvalidIndexFile"
             /\ Contains(ctor_exc.msg,
                         <<"0", "x", "C", "1", "F", "1", "D", "C", "C", "1">>)
             /\ EndsWith(ctor_exc.msg, <<", got=">> \o ActualMagicText)

\* Construction attempted on a file with the zero magic, followed by
\* records.
C6_Witness ==
    /\ HasHeader
    /\ SubSeq(file, 1, 4) = <<0, 0, 0, 0>>
    /\ RegionLen > 0
    /\ ctor_exc.type = "InvalidIndexFile"

\* C7: for both supported versions, a record packed from known field values
\* is read back through the accessors with exactly those values, in the
\* order offset_bytes, packet_size_bits, content_size_bits,
\* timestamp_begin_cycles, timestamp_end_cycles, events_discarded_count,
\* channel_id, then stream_id, packet_sequence_number for {1,1}: an
\* enumeration of a file of whole records run to its end has yielded one
\* entry per record written, with the values written.
C7_RoundTrip ==
    \A g \in 1..Len(gens) :
        (/\ HeaderIs(1, 0) \/ HeaderIs(1, 1)
         /\ RegionLen = Len(written) * (IF HeaderIs(1, 1) THEN 72 ELSE 56)
         /\ gens[g].state = "finished")
        => /\ Len(gens[g].out) = Len(written)
           /\ \A i \in 1..Len(written) :
                 FieldsOf(gens[g].out[i], Len(written[i])) = written[i]

\* C8: when the stream holds fewer than 16 bytes, construction fails with
\* the decoder's own format error and no IndexFile exists.
C8_TruncatedHeaderIsFormatError ==
    (~HasHeader /\ Constructed)
    => /\ index = None
       /\ ctor_exc.type = "InvalidIndexFile"

\* C9 (state part): with a single owner, an enumeration still running has
\* only yielded, one whole {1,1} record per pull, so that it has ended by
\* pull floor((filesize-16)/72)+1; it ends either normally or with an error.
C9_EndsInBoundedPulls ==
    \A g \in 1..Len(gens) :
        /\ gens[g].state # "finished"
           => /\ gens[g].pulls = Len(gens[g].out)
              /\ gens[g].exc = NoError
              /\ gens[g].pulls * 72 <= RegionLen
        /\ gens[g].pulls > RegionLen \div 72 => gens[g].state = "finished"

\* C9 (step part): a pull that finds no byte left in the stream ends the
\* enumeration without error and without an entry, whatever the version.
C9_ExhaustedPullEndsNormally ==
    \A g \in 1..Len(gens) :
        (/\ gens[g].state # "finished"
         /\ gens'[g].pulls = gens[g].pulls + 1
         /\ (IF gens[g].state = "created" THEN HeaderSize ELSE pos) >= Len(file))
        => /\ gens'[g].state = "finished"
           /\ gens'[g].exc = NoError
           /\ gens'[g].out = gens[g].out

\* C9: exhaustion is checked before the version is dispatched, and every
\* enumeration ends after finitely many pulls.
C9_ExhaustionBeforeDispatch ==
    []C9_EndsInBoundedPulls /\ [][C9_ExhaustedPullEndsNormally]_vars

\* A header-only file of unsupported version enumerated to its end without
\* error.
C9_Witness ==
    /\ HeaderUnsupported
    /\ RegionLen = 0
    /\ \E g \in 1..Len(gens) :
          /\ gens[g].state = "finished"
          /\ gens[g].pulls >= 1
          /\ gens[g].exc = NoError

\* C10 (step): over a valid {1,1} file, the first pull of an enumeration
\* yields record 0 and any other yielding pull yields the record following
\* the one most recently yielded by any enumeration.
C10_SharedPositionStep ==
    \A g \in 1..Len(gens) :
        (/\ HeaderIs(1, 1)
         /\ RegionLen = Len(written) * 72
         /\ Len(gens'[g].out) = Len(gens[g].out) + 1)
        => LET e == gens'[g].out[Len(gens'[g].out)]
           IN  IF gens[g].state = "created"
               THEN FieldsOf(e, 9) = written[1]
               ELSE \E j \in 1..(Len(written) - 1) :
                       /\ FieldsOf(last, 9) = written[j]
                       /\ FieldsOf(e, 9) = written[j + 1]

\* C10: enumerations of one file handle share the single stream position.
C10_SharedPosition == [][C10_SharedPositionStep]_vars

\* An enumeration interleaved with a later one has yielded its second
\* record twice.
C10_Witness ==
    /\ HeaderIs(1, 1)
    /\ RegionLen = 144
    /\ \E g \in 1..Len(gens) :
          /\ Len(gens[g].out) = 3
          /\ gens[g].out[2] = gens[g].out[3]
          /\ gens[g].out[1] # gens[g].out[2]

====
